---- MODULE Spec2Model ----
(***************************************************************************)
(* Model of the JAMS/UFZ utility functions: the ascii reader sread, the    *)
(* guarded division, the argsort wrapper and the HDF4/HDF5 readers.        *)
(*                                                                         *)
(* A Python string is a sequence of one-character strings; the file is a   *)
(* sequence of lines (without the line terminator).  None is the string    *)
(* "None" wherever the other values of the variable are strings, and a     *)
(* flag in a record otherwise.                                             *)
(***************************************************************************)
EXTENDS Integers, Sequences, FiniteSets, TLC

VARIABLES
    \* ---- sread ----
    infile,     \* content of the input file: sequence of lines
    opts,       \* keyword arguments of the call
    pc,         \* position in the function
    fstate,     \* state of the file handle f: "unopened", "open", "closed"
    fpos,       \* number of lines already consumed from f
    head,       \* header lines read by the skip loop
    s,          \* current line (right-stripped)
    sep,        \* separator in use ("None": whitespace)
    res,        \* current line split into columns
    iinc,       \* selected column indices (0-based)
    var,        \* rows collected so far
    src,        \* history: 1-based file line number of every data line that
                \* reached the column check (0: the empty read at end of file)
    out,        \* value returned
    exc,        \* exception raised ("" if none)
    written,    \* history: the table the file was written from, if any
    \* ---- division ----
    dv,
    \* ---- argsort ----
    as,
    \* ---- readhdf4 / readhdf5 ----
    hd

sreadVars == <<infile, opts, pc, fstate, fpos, head, s, sep, res, iinc, var, src, out, exc, written>>
vars == <<infile, opts, pc, fstate, fpos, head, s, sep, res, iinc, var, src, out, exc, written, dv, as, hd>>

(***************************************************************************)
(* Bounds of the model                                                     *)
(***************************************************************************)
MaxLines == 3
MaxRows == 2
MaxCols == 2
MaxCells == 4
MaxArr == 2
MaxSort == 3
MaxNum == 2
MaxVal == 2

(***************************************************************************)
(* Python str methods                                                      *)
(***************************************************************************)
Whitespace == {" "}

Max(S) == CHOOSE x \in S : \A y \in S : y <= x

Range(q) == {q[i] : i \in 1..Len(q)}

\* str.rstrip(chars)
RECURSIVE RStripSet(_, _)
RStripSet(str, cs) ==
    IF str = <<>> THEN <<>>
    ELSE IF str[Len(str)] \in cs THEN RStripSet(SubSeq(str, 1, Len(str) - 1), cs)
    ELSE str

\* str.lstrip(chars)
RECURSIVE LStripSet(_, _)
LStripSet(str, cs) ==
    IF str = <<>> THEN <<>>
    ELSE IF str[1] \in cs THEN LStripSet(Tail(str), cs)
    ELSE str

\* str.strip(chars)
StripSet(str, cs) == LStripSet(RStripSet(str, cs), cs)

\* str.rstrip()
RStrip(str) == RStripSet(str, Whitespace)

\* str.strip()
Strip(str) == StripSet(str, Whitespace)

\* str.split(c) for a one-character separator c: one more field than there
\* are separators, empty fields kept
RECURSIVE SplitChar(_, _, _)
SplitChar(str, c, cur) ==
    IF str = <<>> THEN <<cur>>
    ELSE IF str[1] = c THEN <<cur>> \o SplitChar(Tail(str), c, <<>>)
    ELSE SplitChar(Tail(str), c, Append(cur, str[1]))

\* str.split(None): runs of whitespace separate, no empty fields
RECURSIVE SplitWS(_, _)
SplitWS(str, cur) ==
    IF str = <<>> THEN (IF cur = <<>> THEN <<>> ELSE <<cur>>)
    ELSE IF str[1] \in Whitespace
         THEN (IF cur = <<>> THEN <<>> ELSE <<cur>>) \o SplitWS(Tail(str), <<>>)
    ELSE SplitWS(Tail(str), Append(cur, str[1]))

\* str.split(sep)
Split(str, sp) == IF sp = "None" THEN SplitWS(str, <<>>) ELSE SplitChar(str, sp, <<>>)

\* file.readline().rstrip() at position p: '' at end of file
ReadLine(p) == IF p < Len(infile) THEN RStrip(infile[p + 1]) ELSE <<>>

\* position after one readline
Advance(p) == IF p < Len(infile) THEN p + 1 ELSE p

(***************************************************************************)
(* Python values returned by sread.  kind: "none" (None), "list" or        *)
(* "array" (numpy array of strings); nd: number of dimensions; d: the data *)
(* held as a sequence of rows (nd = 2), as <<vector>> (nd = 1) or as       *)
(* <<<<cell>>>> (nd = 0).                                                  *)
(***************************************************************************)
PyNone == [kind |-> "none", nd |-> 0, d |-> <<>>]

PyList2(rows) == [kind |-> "list", nd |-> 2, d |-> rows]

PyList1(cells) == [kind |-> "list", nd |-> 1, d |-> <<cells>>]

Ok(v) == [exc |-> "", v |-> v]

Raise(e) == [exc |-> e, v |-> PyNone]

\* the characters of a string as a list of one-character strings
Chars(str) == [k \in 1..Len(str) |-> <<str[k]>>]

MinOf(S) == CHOOSE x \in S : \A y \in S : x <= y

\* [ [ fill_value if i=='' else i for i in row ] for row in var ]
FillList(v, fv) ==
    IF v.kind = "none" THEN Raise("TypeError")
    ELSE IF v.nd = 2
    THEN Ok(PyList2([r \in 1..Len(v.d) |->
                       [c \in 1..Len(v.d[r]) |->
                          IF v.d[r][c] = <<>> THEN fv ELSE v.d[r][c]]]))
    \* a list of strings: every string is iterated character by character
    ELSE Ok(PyList2([r \in 1..Len(v.d[1]) |-> Chars(v.d[1][r])]))

\* maxi = max([ len(i) for i in var]); if maxi==1: var = [ i[0] for i in var ]
SqueezeList(v) ==
    IF v.kind = "none" THEN Raise("TypeError")
    ELSE LET items == IF v.nd = 2 THEN v.d ELSE v.d[1]
         IN  IF items = <<>> THEN Raise("ValueError")
             ELSE IF Max({Len(items[i]) : i \in 1..Len(items)}) # 1 THEN Ok(v)
             ELSE IF \E i \in 1..Len(items) : Len(items[i]) = 0 THEN Raise("IndexError")
             ELSE IF v.nd = 2
                  THEN Ok(PyList1([i \in 1..Len(items) |-> items[i][1]]))
                  \* i[0] of a string is its first character
                  ELSE Ok(PyList1([i \in 1..Len(items) |-> <<items[i][1]>>]))

\* if transpose and isinstance(var[0], list): var = [list(i) for i in zip(*var)]
TransposeList(v) ==
    IF v.kind = "none" THEN Raise("TypeError")
    ELSE IF v.nd = 2
    THEN IF v.d = <<>> THEN Raise("IndexError")
         ELSE LET n == MinOf({Len(v.d[r]) : r \in 1..Len(v.d)})
              IN  Ok(PyList2([c \in 1..n |-> [r \in 1..Len(v.d) |-> v.d[r][c]]]))
    ELSE IF v.d[1] = <<>> THEN Raise("IndexError")
    ELSE Ok(v)

\* np.array(var, dtype=np.str)
ToArray(v) ==
    IF v.kind = "none"
    THEN [kind |-> "array", nd |-> 0, d |-> << << <<"N", "o", "n", "e">> >> >>]
    ELSE [v EXCEPT !.kind = "array"]

\* var.T
TransposeArray(v) ==
    IF v.nd = 2
    THEN [v EXCEPT !.d = [c \in 1..Len(v.d[1]) |-> [r \in 1..Len(v.d) |-> v.d[r][c]]]]
    ELSE v

\* var.squeeze(): every dimension of length 1 is dropped
SqueezeArray(v) ==
    IF v.nd = 2
    THEN IF Len(v.d) = 1 /\ Len(v.d[1]) = 1 THEN [v EXCEPT !.nd = 0]
         ELSE IF Len(v.d) = 1 THEN [v EXCEPT !.nd = 1]
         ELSE IF Len(v.d[1]) = 1
              THEN [v EXCEPT !.nd = 1, !.d = << [r \in 1..Len(v.d) |-> v.d[r][1]] >>]
         ELSE v
    ELSE IF v.nd = 1 /\ Len(v.d[1]) = 1 THEN [v EXCEPT !.nd = 0]
    ELSE v

\* np.where(var=='', fill_value, var)
FillArray(v, fv) ==
    [v EXCEPT !.d = [r \in 1..Len(v.d) |->
                       [c \in 1..Len(v.d[r]) |->
                          IF v.d[r][c] = <<>> THEN fv ELSE v.d[r][c]]]]

\* the common tail of both branches: conversion of var to the returned value
PostProcess(v, o) ==
    IF o.strarr
    THEN LET a1 == ToArray(v)
             a2 == IF o.transpose THEN TransposeArray(a1) ELSE a1
             a3 == IF o.squeeze \/ o.reform THEN SqueezeArray(a2) ELSE a2
             a4 == IF o.fill THEN FillArray(a3, o.fill_value) ELSE a3
         IN  Ok(a4)
    ELSE LET l1 == IF o.fill THEN FillList(v, o.fill_value) ELSE Ok(v)
             l2 == IF l1.exc # "" THEN l1
                   ELSE IF o.squeeze \/ o.reform THEN SqueezeList(l1.v) ELSE l1
             l3 == IF l2.exc # "" THEN l2
                   ELSE IF o.transpose THEN TransposeList(l2.v) ELSE l2
         IN  l3

(***************************************************************************)
(* line2var and the column selection                                       *)
(***************************************************************************)
\* the strip keyword applied to one cell
StripCell(cell, st) ==
    IF st.mode = "None" THEN StripSet(StripSet(cell, {"\""}), {"'"})
    ELSE IF st.mode = "off" THEN cell
    ELSE StripSet(cell, st.chars)

\* [ i for i in iinc if i < nres ]
RECURSIVE SelectIdx(_, _)
SelectIdx(q, n) ==
    IF q = <<>> THEN <<>>
    ELSE IF Head(q) < n THEN <<Head(q)>> \o SelectIdx(Tail(q), n)
    ELSE SelectIdx(Tail(q), n)

\* the row line2var appends to var: the selected cells the line has, then
\* one '' per selected column the line does not have
line2var(r, inc, st) ==
    LET nres == Len(r)
        have == SelectIdx(inc, nres)
        rest == Len(inc) - Len(have)
    IN  [k \in 1..Len(have) |-> StripCell(r[have[k] + 1], st)]
        \o [k \in 1..rest |-> <<>>]

\* range(a, b)
PyRange(a, b) == [k \in 1..(IF b > a THEN b - a ELSE 0) |-> a + k - 1]

\* SniffSep trying the semicolon before the comma
SniffSep_SemicolonFirst(str) ==
    IF Len(SplitChar(str, ";", <<>>)) # 1 THEN ";"
    ELSE IF Len(SplitChar(str, ",", <<>>)) # 1 THEN ","
    ELSE "None"

\* SniffSep with the semicolon forgotten
SniffSep_NoSemicolon(str) ==
    IF Len(SplitChar(str, ",", <<>>)) # 1 THEN "," ELSE "None"

\* the separator found from the first data line, when none is given
SniffSep(str) ==
    IF Len(SplitChar(str, ",", <<>>)) # 1 THEN ","
    ELSE IF Len(SplitChar(str, ";", <<>>)) # 1 THEN ";"
    ELSE "None"

\* the indices of the header cells whose name is in cname
RECURSIVE NameIdx(_, _, _)
NameIdx(hres, names, k) ==
    IF k > Len(hres) THEN <<>>
    ELSE (IF hres[k] \in names THEN <<k - 1>> ELSE <<>>) \o NameIdx(hres, names, k + 1)

\* IndicesByName stripping whatever hstrip says
IndicesByName_AlwaysStrip(o, hd0, sp) ==
    LET hres0 == Split(hd0, sp)
    IN  NameIdx([k \in 1..Len(hres0) |-> Strip(hres0[k])],
                {Strip(h) : h \in o.cname.names}, 1)

\* iinc from cname and the first header line
IndicesByName(o, hd0, sp) ==
    LET names == IF o.hstrip THEN {Strip(h) : h \in o.cname.names} ELSE o.cname.names
        hres0 == Split(hd0, sp)
        hres  == IF o.hstrip THEN [k \in 1..Len(hres0) |-> Strip(hres0[k])] ELSE hres0
    IN  NameIdx(hres, names, 1)

\* IndicesByNc with cskip forgotten when all columns are read
IndicesByNc_NoSkip(o, nres) ==
    IF o.nc.list THEN o.nc.l
    ELSE IF o.nc.n <= 0 THEN PyRange(0, nres)
    ELSE PyRange(o.cskip, o.cskip + o.nc.n)

\* iinc from the nc keyword
IndicesByNc(o, nres) ==
    IF o.nc.list THEN o.nc.l
    ELSE IF o.nc.n <= 0 THEN PyRange(o.cskip, nres)
    ELSE PyRange(o.cskip, o.cskip + o.nc.n)

\* nc != 0
NcGiven(o) == o.nc.list \/ o.nc.n # 0

\* NotEnoughColumns off by one: (miinc > nres) and (not fill)
NotEnoughColumns_OffByOne(inc, nres, o) == Max(Range(inc)) > nres /\ ~o.fill

\* (miinc >= nres) and (not fill)
NotEnoughColumns(inc, nres, o) == Max(Range(inc)) >= nres /\ ~o.fill

(***************************************************************************)
(* sread, step by step                                                     *)
(***************************************************************************)
Terminal == {"returned", "raised"}

\* raise e; closed says whether f.close() came before the raise
SreadRaise(e, closed) ==
    /\ pc' = "raised"
    /\ exc' = e
    /\ fstate' = IF closed THEN "closed" ELSE fstate
    /\ out' = PyNone

\* f = codecs.open(infile, 'r', encoding=encoding, errors=errors)
Open ==
    /\ pc = "start"
    /\ fstate' = "open"
    /\ pc' = "skip"
    /\ UNCHANGED <<dv, as, hd, infile, opts, fpos, head, s, sep, res, iinc, var, src, out, exc, written>>

\* the two loops that skip hskip lines and read skip-hskip header lines
SkipLines ==
    /\ pc = "skip"
    /\ LET p1 == IF opts.hskip > 0
                 THEN (IF fpos + opts.hskip < Len(infile)
                       THEN fpos + opts.hskip ELSE Len(infile))
                 ELSE fpos
           n  == IF opts.skip > 0 /\ opts.skip - opts.hskip > 0
                 THEN opts.skip - opts.hskip ELSE 0
       IN  /\ head' = [k \in 1..n |-> ReadLine(p1 + k - 1)]
           /\ fpos' = IF p1 + n < Len(infile) THEN p1 + n ELSE Len(infile)
    /\ pc' = "first"
    /\ UNCHANGED <<dv, as, hd, infile, opts, fstate, s, sep, res, iinc, var, src, out, exc, written>>

\* IsComment looking at the last character of the line
IsComment_LastChar(str) == opts.comment.given /\ str[Len(str)] \in opts.comment.chars

\* a line is a comment line: comment is given and holds its first character
IsComment(str) == opts.comment.given /\ str[1] \in opts.comment.chars

\* one pass of the loop "while True" that looks for the first data line
FirstLine ==
    /\ pc = "first"
    /\ LET line == ReadLine(fpos)
           lno  == IF fpos < Len(infile) THEN fpos + 1 ELSE 0
       IN  /\ s' = line
           /\ fpos' = Advance(fpos)
           /\ IF Len(line) = 0
              THEN IF opts.skip_blank
                   THEN pc' = "first" /\ src' = src
                   ELSE pc' = "sep" /\ src' = Append(src, lno)
              ELSE IF IsComment(line)
                   THEN pc' = "first" /\ src' = src
                   ELSE pc' = "sep" /\ src' = Append(src, lno)
    /\ UNCHANGED <<dv, as, hd, infile, opts, fstate, head, sep, res, iinc, var, out, exc, written>>

\* the separator and the split of the first data line
Separator ==
    /\ pc = "sep"
    /\ sep' = IF opts.separator = "None" THEN SniffSep(s) ELSE opts.separator
    /\ res' = Split(s, sep')
    /\ pc' = "indices"
    /\ UNCHANGED <<dv, as, hd, infile, opts, fstate, fpos, head, s, iinc, var, src, out, exc, written>>

\* "Determine indices", up to miinc = max(iinc)
Indices ==
    /\ pc = "indices"
    /\ IF NcGiven(opts) /\ opts.cname.given
       THEN SreadRaise("ValueError", TRUE) /\ iinc' = iinc
       ELSE IF opts.cname.given /\ opts.skip - opts.hskip <= 0
       THEN SreadRaise("IOError", TRUE) /\ iinc' = iinc
       ELSE LET inc == IF opts.cname.given
                       THEN IndicesByName(opts, head[1], sep)
                       ELSE IndicesByNc(opts, Len(res))
            IN  /\ iinc' = inc
                /\ IF inc = <<>>
                   \* max() of an empty sequence, f still open
                   THEN SreadRaise("ValueError", FALSE)
                   ELSE /\ pc' = IF opts.header THEN "header" ELSE "values"
                        /\ UNCHANGED <<fstate, out, exc>>
    /\ UNCHANGED <<dv, as, hd, infile, opts, fpos, head, s, sep, res, var, src, written>>

\* the header lines split in columns: the rows, or the first header line
\* that has not enough columns
RECURSIVE HeaderRows(_, _)
HeaderRows(hd0, k) ==
    IF k > Len(hd0) THEN [exc |-> "", rows |-> <<>>]
    ELSE LET hres == Split(hd0[k], sep)
         IN  IF NotEnoughColumns(iinc, Len(hres), opts)
             THEN [exc |-> "ValueError", rows |-> <<>>]
             ELSE LET rest == HeaderRows(hd0, k + 1)
                  IN  IF rest.exc # "" THEN rest
                      ELSE [exc |-> "",
                            rows |-> <<line2var(hres, iinc, opts.strip)>> \o rest.rows]

\* the branch "if header:"
Header ==
    /\ pc = "header"
    /\ LET n == opts.skip - opts.hskip
           split == HeaderRows(head, 1)
           v == IF n <= 0 THEN PyNone
                ELSE IF opts.full_header THEN PyList1(head)
                ELSE IF n = 1 THEN PyList1(split.rows[1])
                ELSE PyList2(split.rows)
           post == PostProcess(v, opts)
       IN  IF n > 0 /\ ~opts.full_header /\ split.exc # ""
           THEN SreadRaise(split.exc, TRUE) /\ var' = var
           ELSE /\ var' = v.d
                /\ fstate' = "closed"
                /\ IF post.exc # ""
                   THEN pc' = "raised" /\ exc' = post.exc /\ out' = PyNone
                   ELSE pc' = "returned" /\ exc' = exc /\ out' = post.v
    /\ UNCHANGED <<dv, as, hd, infile, opts, fpos, head, s, sep, res, iinc, src, written>>

\* "Values - first line"
Values ==
    /\ pc = "values"
    /\ IF NotEnoughColumns(iinc, Len(res), opts)
       THEN SreadRaise("ValueError", TRUE) /\ var' = var
       ELSE /\ var' = <<line2var(res, iinc, opts.strip)>>
            /\ pc' = "rest"
            /\ UNCHANGED <<fstate, out, exc>>
    /\ UNCHANGED <<dv, as, hd, infile, opts, fpos, head, s, sep, res, iinc, src, written>>

\* one pass of "for line in f"
RestLine ==
    /\ pc = "rest"
    /\ fpos < Len(infile)
    /\ LET line == RStrip(infile[fpos + 1])
           r    == Split(line, sep)
       IN  /\ s' = line
           /\ fpos' = fpos + 1
           /\ IF Len(line) = 0
              THEN /\ pc' = IF opts.skip_blank THEN "rest" ELSE "finish"
                   /\ UNCHANGED <<res, var, src, fstate, out, exc>>
              ELSE IF IsComment(line)
              THEN UNCHANGED <<pc, res, var, src, fstate, out, exc>>
              ELSE /\ res' = r
                   /\ src' = Append(src, fpos + 1)
                   /\ IF NotEnoughColumns(iinc, Len(r), opts)
                      THEN SreadRaise("ValueError", TRUE) /\ var' = var
                      ELSE /\ var' = Append(var, line2var(r, iinc, opts.strip))
                           /\ UNCHANGED <<pc, fstate, out, exc>>
    /\ UNCHANGED <<dv, as, hd, infile, opts, head, sep, iinc, written>>

\* the loop "for line in f" is exhausted
RestEnd ==
    /\ pc = "rest"
    /\ fpos = Len(infile)
    /\ pc' = "finish"
    /\ UNCHANGED <<dv, as, hd, infile, opts, fstate, fpos, head, s, sep, res, iinc, var, src, out, exc, written>>

\* f.close() and the conversion of var to the returned value
Finish ==
    /\ pc = "finish"
    /\ fstate' = "closed"
    /\ LET post == PostProcess(PyList2(var), opts)
       IN  IF post.exc # ""
           THEN pc' = "raised" /\ exc' = post.exc /\ out' = PyNone
           ELSE pc' = "returned" /\ exc' = exc /\ out' = post.v
    /\ UNCHANGED <<dv, as, hd, infile, opts, fpos, head, s, sep, res, iinc, var, src, written>>

SreadNext ==
    \/ Open
    \/ SkipLines
    \/ FirstLine
    \/ Separator
    \/ Indices
    \/ Header
    \/ Values
    \/ RestLine
    \/ RestEnd
    \/ Finish

(***************************************************************************)
(* Calls of sread                                                          *)
(***************************************************************************)
\* the defaults of the keyword arguments
DefaultOpts ==
    [nc |-> [list |-> FALSE, n |-> 0, l |-> <<>>],
     cname |-> [given |-> FALSE, names |-> {}],
     skip |-> 0, cskip |-> 0, hskip |-> 0, hstrip |-> TRUE,
     separator |-> "None", squeeze |-> FALSE, reform |-> FALSE,
     skip_blank |-> FALSE, comment |-> [given |-> FALSE, chars |-> {}],
     fill |-> FALSE, fill_value |-> <<>>, strip |-> [mode |-> "None", chars |-> {}],
     header |-> FALSE, full_header |-> FALSE, transpose |-> FALSE, strarr |-> FALSE]

NcInt(n) == [list |-> FALSE, n |-> n, l |-> <<>>]

NcList(l) == [list |-> TRUE, n |-> 0, l |-> l]

NoComment == [given |-> FALSE, chars |-> {}]

Comment(cs) == [given |-> TRUE, chars |-> cs]

NoCname == [given |-> FALSE, names |-> {}]

Cname(ns) == [given |-> TRUE, names |-> ns]

\* sequences over S of length lo..hi
SeqsOf(S, lo, hi) == UNION {[1..n -> S] : n \in lo..hi}

\* lines: empty, whitespace only, comment, one column, two columns by
\* comma, two columns by blank
LEmpty == <<>>

LBlank == <<" ">>

LComment == <<"#", "a">>

LOne == <<"a">>

LComma == <<"a", ",", "b">>

LSpace == <<"b", " ", "c">>

\* the cells the written tables are made of
Cells == { <<"a">>, <<"\"", "b", "\"">>, <<"'", "\"", "a">> }

Joiners == {",", ";", " "}

Tables ==
    UNION {[1..d[1] -> [1..d[2] -> Cells]] :
             d \in {e \in (1..MaxRows) \X (1..MaxCols) : e[1] * e[2] <= MaxCells}}

\* the cells of a row joined by the character j
RECURSIVE Join(_, _)
Join(row, j) ==
    IF row = <<>> THEN <<>>
    ELSE IF Len(row) = 1 THEN row[1]
    ELSE row[1] \o <<j>> \o Join(Tail(row), j)

\* the file holding the table, one row per line
WriteTable(tab, j) == [r \in 1..Len(tab) |-> Join(tab[r], j)]

NoTable == [given |-> FALSE, rows |-> <<>>, joiner |-> ""]

SreadStart(f, o, w) ==
    /\ infile = f
    /\ opts = o
    /\ written = w
    /\ pc = "start"
    /\ fstate = "unopened"
    /\ fpos = 0
    /\ head = <<>>
    /\ s = <<>>
    /\ sep = "None"
    /\ res = <<>>
    /\ iinc = <<>>
    /\ var = <<>>
    /\ src = <<>>
    /\ out = PyNone
    /\ exc = ""

\* reading of data lines: blank lines, comments, skipped lines, separator
DataCalls ==
    \E f \in SeqsOf({LEmpty, LBlank, LComment, LOne, LComma}, 0, MaxLines),
       k \in {0, 1}, sb \in BOOLEAN, cm \in {NoComment, Comment({"#"})},
       sp \in {"None", ","} :
        SreadStart(f, [DefaultOpts EXCEPT !.skip = k, !.skip_blank = sb,
                                          !.comment = cm, !.separator = sp],
                   NoTable)

\* selection of columns by index, short lines
ColumnCalls ==
    \E f \in SeqsOf({LOne, LComma, LSpace}, 0, MaxLines),
       nc \in {NcInt(1), NcInt(2), NcList(<<1>>), NcList(<<1, 0>>)},
       ck \in {0, 1}, fl \in BOOLEAN :
        SreadStart(f, [DefaultOpts EXCEPT !.nc = nc, !.cskip = ck, !.fill = fl,
                                          !.fill_value = <<"x">>],
                   NoTable)

\* header and selection of columns by name
HeaderCalls ==
    \E f \in SeqsOf({LBlank, LOne, LComma}, 0, MaxLines),
       hd0 \in BOOLEAN, fh \in BOOLEAN, k \in {0, 1, 2}, hk \in {0, 1},
       cn \in {NoCname, Cname({<<"a">>})}, nc \in {NcInt(0), NcInt(1)} :
        SreadStart(f, [DefaultOpts EXCEPT !.header = hd0, !.full_header = fh,
                                          !.skip = k, !.hskip = hk, !.cname = cn,
                                          !.nc = nc],
                   NoTable)

\* shape of the output
ShapeCalls ==
    \E f \in SeqsOf({LOne, LComma}, 0, MaxLines),
       tr \in BOOLEAN, sq \in BOOLEAN, sa \in BOOLEAN, fl \in BOOLEAN,
       hd0 \in BOOLEAN, k \in {0, 1} :
        SreadStart(f, [DefaultOpts EXCEPT !.transpose = tr, !.squeeze = sq,
                                          !.strarr = sa, !.fill = fl,
                                          !.header = hd0, !.skip = k],
                   NoTable)

\* both selections of columns at once
MutexCalls ==
    \E f \in SeqsOf({LBlank, LComment, LComma}, 0, MaxLines),
       nc \in {NcInt(1), NcList(<<0>>)}, k \in {0, 1}, sb \in BOOLEAN,
       hd0 \in BOOLEAN, cm \in {NoComment, Comment({"#"})} :
        SreadStart(f, [DefaultOpts EXCEPT !.nc = nc, !.cname = Cname({<<"a">>}),
                                          !.skip = k, !.skip_blank = sb,
                                          !.header = hd0, !.comment = cm],
                   NoTable)

\* lines with a semicolon, and with a comma and a semicolon
LSemi == <<"a", ";", "b">>

LBoth == <<"a", ",", "b", ";", "c">>

\* choice of the separator: lines with different separators, read as data
\* and as header
SeparatorCalls ==
    \E f \in SeqsOf({LSemi, LBoth, LSpace, LOne}, 0, MaxLines),
       hd0 \in BOOLEAN, k \in {0, 1} :
        SreadStart(f, [DefaultOpts EXCEPT !.header = hd0, !.skip = k], NoTable)

\* a line of three columns, and one whose second column is empty
LThree == <<"a", ",", "b", ",", "c">>

LGap == <<"a", ",", ",", "b">>

\* selection of all columns after cskip, and of listed columns that a line
\* may not have
SelectCalls ==
    \E f \in SeqsOf({LOne, LComma, LThree, LGap}, 0, MaxLines),
       nc \in {NcInt(0), NcInt(-1), NcList(<<2, 0>>)},
       ck \in {0, 1}, fl \in BOOLEAN :
        SreadStart(f, [DefaultOpts EXCEPT !.nc = nc, !.cskip = ck, !.fill = fl,
                                          !.fill_value = <<"x">>],
                   NoTable)

\* header lines with whitespace before and after the name of the last column
LHeadLead == <<"a", ",", " ", "b">>

LHeadTrail == <<"a", ",", "b", " ">>

\* selection of columns by name, with and without hstrip
NameCalls ==
    \E f \in SeqsOf({LHeadLead, LHeadTrail, LComma, LOne}, 0, MaxLines),
       ns \in {{<<"b">>}, {<<" ", "b">>}, {<<"b", " ">>}, {<<"a">>, <<"b">>}},
       hs \in BOOLEAN, k \in {1, 2}, hk \in {0, 1} :
        SreadStart(f, [DefaultOpts EXCEPT !.cname = Cname(ns), !.hstrip = hs,
                                          !.skip = k, !.hskip = hk],
                   NoTable)

\* the header returned, whole or split in columns, in every shape of list
HeaderShapeCalls ==
    \E f \in SeqsOf({LBlank, LOne, LComma}, 0, MaxLines),
       fh \in BOOLEAN, fl \in BOOLEAN, sq \in BOOLEAN, tr \in BOOLEAN,
       k \in {1, 2}, nc \in {NcInt(0), NcInt(1), NcList(<<1, 0>>)} :
        SreadStart(f, [DefaultOpts EXCEPT !.header = TRUE, !.full_header = fh,
                                          !.fill = fl, !.fill_value = <<"x">>,
                                          !.squeeze = sq, !.transpose = tr,
                                          !.skip = k, !.nc = nc],
                   NoTable)

\* a written table read back with the default options
TableCalls ==
    \E tab \in Tables, j \in Joiners :
        SreadStart(WriteTable(tab, j), DefaultOpts,
                   [given |-> TRUE, rows |-> tab, joiner |-> j])

Idle == [state |-> "idle"]

\* no call of sread
SreadIdle ==
    /\ infile = <<>>
    /\ opts = DefaultOpts
    /\ written = NoTable
    /\ pc = "idle"
    /\ fstate = "unopened"
    /\ fpos = 0
    /\ head = <<>>
    /\ s = <<>>
    /\ sep = "None"
    /\ res = <<>>
    /\ iinc = <<>>
    /\ var = <<>>
    /\ src = <<>>
    /\ out = PyNone
    /\ exc = ""

Init ==
    /\ \/ DataCalls
       \/ SeparatorCalls
       \/ SelectCalls
       \/ NameCalls
       \/ HeaderShapeCalls
       \/ ColumnCalls
       \/ HeaderCalls
       \/ ShapeCalls
       \/ MutexCalls
       \/ TableCalls
    /\ dv = Idle
    /\ as = Idle
    /\ hd = Idle

Next == SreadNext

Spec == Init /\ [][Next]_vars

(***************************************************************************)
(* division                                                                *)
(***************************************************************************)
Abs(x) == IF x < 0 THEN -x ELSE x

Sgn(x) == IF x < 0 THEN -1 ELSE IF x > 0 THEN 1 ELSE 0

RECURSIVE Gcd(_, _)
Gcd(x, y) == IF y = 0 THEN x ELSE Gcd(y, x % y)

\* an element of an array: masked (m) or the number v
Num(v) == [m |-> FALSE, v |-> v]

MaskedElem == [m |-> TRUE, v |-> 0]

\* an element of the result: masked, or the number n/d in lowest terms
\* (d = 0: inf, -inf or nan, what numpy gives for a division by zero)
Rat(n, d) == [m |-> FALSE, n |-> n, d |-> d]

MaskedOut == [m |-> TRUE, n |-> 0, d |-> 1]

\* a/b in true division
Quot(x, y) ==
    IF y = 0 THEN Rat(Sgn(x), 0)
    ELSE LET g == Gcd(Abs(x), Abs(y))
         IN  Rat((Sgn(y) * x) \div g, Abs(y) \div g)

\* DivElem with prec taken as it is: np.abs(b) > prec
DivElem_SignedPrec(x, y, otherwise, prec, ma) ==
    IF ma /\ y.m THEN MaskedOut
    ELSE IF Abs(y.v) > prec
         THEN (IF ma /\ x.m THEN MaskedOut ELSE Quot(x.v, y.v))
    ELSE Rat(otherwise, 1)

\* one element of np.where(np.abs(b) > np.abs(prec), a/b, otherwise), and of
\* its np.ma counterpart when ma
DivElem(x, y, otherwise, prec, ma) ==
    IF ma /\ y.m THEN MaskedOut
    ELSE IF Abs(y.v) > Abs(prec)
         THEN (IF ma /\ x.m THEN MaskedOut ELSE Quot(x.v, y.v))
    ELSE Rat(otherwise, 1)

\* isinstance(a, np.ma.masked_array) or isinstance(b, np.ma.masked_array)
AnyMasked(d) == d.a.kind = "ma" \/ d.b.kind = "ma"

\* numpy broadcasting of two one-dimensional operands
Broadcastable(n1, n2) == n1 = n2 \/ n1 = 1 \/ n2 = 1

BroadcastLen(n1, n2) == IF n1 > n2 THEN n1 ELSE n2

Bc(q, i) == IF Len(q) = 1 THEN q[1] ELSE q[i]

\* oldsettings = np.geterr(); np.seterr(divide='ignore')
DivEnter ==
    /\ dv.state = "start"
    /\ dv' = [dv EXCEPT !.state = "set", !.oldsettings = dv.err, !.err = "ignore"]
    /\ UNCHANGED sreadVars
    /\ UNCHANGED <<as, hd>>

\* out = np.where(...) or np.ma.where(...)
DivCompute ==
    /\ dv.state = "set"
    /\ IF dv.a.kind = "str"
       THEN dv' = [dv EXCEPT !.state = "raised", !.exc = "TypeError"]
       ELSE IF ~Broadcastable(Len(dv.a.e), Len(dv.b.e))
       THEN dv' = [dv EXCEPT !.state = "raised", !.exc = "ValueError"]
       ELSE dv' = [dv EXCEPT !.state = "computed",
                             !.out = [i \in 1..BroadcastLen(Len(dv.a.e), Len(dv.b.e)) |->
                                        DivElem(Bc(dv.a.e, i), Bc(dv.b.e, i),
                                                dv.otherwise, dv.prec, AnyMasked(dv))]]
    /\ UNCHANGED sreadVars
    /\ UNCHANGED <<as, hd>>

\* np.seterr(**oldsettings); return out
DivReturn ==
    /\ dv.state = "computed"
    /\ dv' = [dv EXCEPT !.state = "returned", !.err = dv.oldsettings]
    /\ UNCHANGED sreadVars
    /\ UNCHANGED <<as, hd>>

\* operands: plain arrays, masked arrays, or something numpy cannot divide
PlainArrays(S) == {[kind |-> "nd", e |-> e] : e \in SeqsOf({Num(v) : v \in S}, 1, MaxArr)}

MaskedArrays(S) ==
    {[kind |-> "ma", e |-> e] : e \in SeqsOf({Num(v) : v \in S} \cup {MaskedElem}, 1, MaxArr)}

NotANumber == [kind |-> "str", e |-> <<>>]

DivisionInit ==
    /\ SreadIdle
    /\ \E a \in PlainArrays(0..1) \cup MaskedArrays({1}) \cup {NotANumber},
          b \in PlainArrays(-MaxNum..MaxNum) \cup MaskedArrays(0..1),
          x \in {0, 7}, prec \in {-1, 0, 1}, e \in {"warn", "raise"} :
            dv = [state |-> "start", a |-> a, b |-> b, otherwise |-> x, prec |-> prec,
                  err |-> e, oldsettings |-> "", out |-> <<>>, exc |-> ""]
    /\ as = Idle
    /\ hd = Idle

DivisionNext ==
    \/ DivEnter
    \/ DivCompute
    \/ DivReturn

SpecDivision == DivisionInit /\ [][DivisionNext]_vars

(***************************************************************************)
(* argsort                                                                 *)
(***************************************************************************)
\* the permutations of 0..n-1, as sequences
Perms(n) == {p \in [1..n -> 0..(n - 1)] : \A i, j \in 1..n : i # j => p[i] # p[j]}

\* the value numpy sorts a masked entry by when fill_value is None: the
\* largest value of the type of the array
DefaultFill == MaxVal

\* Filled with the fill_value of the call dropped
Filled_DefaultOnly(arr, fv) == [i \in 1..Len(arr) |-> IF arr[i].m THEN DefaultFill ELSE arr[i].v]

\* a.filled(fill_value)
Filled(arr, fv) == [i \in 1..Len(arr) |-> IF arr[i].m THEN fv ELSE arr[i].v]

\* p puts the values in ascending order
Sorts(p, vals) == \A i \in 1..(Len(p) - 1) : vals[p[i] + 1] <= vals[p[i + 1] + 1]

\* p puts the values in ascending order and keeps equal values in place:
\* the order of sorted() of Python
SortsStably(p, vals) ==
    \A i \in 1..(Len(p) - 1) :
        \/ vals[p[i] + 1] < vals[p[i + 1] + 1]
        \/ vals[p[i] + 1] = vals[p[i + 1] + 1] /\ p[i] < p[i + 1]

\* sorted(..., reverse=True): descending, equal values kept in place
SortsStablyReversed(p, vals) ==
    \A i \in 1..(Len(p) - 1) :
        \/ vals[p[i] + 1] > vals[p[i + 1] + 1]
        \/ vals[p[i] + 1] = vals[p[i + 1] + 1] /\ p[i] < p[i + 1]

\* np.ma.argsort(a, fill_value=...): the array is filled and sorted by an
\* unstable sort, so any ascending order of the filled values may come out
ArgsortMasked ==
    /\ as.state = "start"
    /\ as.kind = "ma"
    /\ IF as.reverse
       THEN as' = [as EXCEPT !.state = "raised", !.exc = "TypeError"]
       ELSE \E p \in Perms(Len(as.a)) :
              /\ Sorts(p, Filled(as.a, IF as.fill.given THEN as.fill.v ELSE DefaultFill))
              /\ as' = [as EXCEPT !.state = "returned", !.out = p]
    /\ UNCHANGED sreadVars
    /\ UNCHANGED <<dv, hd>>

\* np.argsort(a, ...)
ArgsortArray ==
    /\ as.state = "start"
    /\ as.kind = "nd"
    /\ IF as.reverse \/ as.fill.given
       THEN as' = [as EXCEPT !.state = "raised", !.exc = "TypeError"]
       ELSE \E p \in Perms(Len(as.a)) :
              /\ Sorts(p, Filled(as.a, 0))
              /\ as' = [as EXCEPT !.state = "returned", !.out = p]
    /\ UNCHANGED sreadVars
    /\ UNCHANGED <<dv, hd>>

\* iargsort: sorted(range(len(seq)), key=seq.__getitem__, **kwargs)
ArgsortIterable ==
    /\ as.state = "start"
    /\ as.kind = "list"
    /\ IF as.fill.given
       THEN as' = [as EXCEPT !.state = "raised", !.exc = "TypeError"]
       ELSE \E p \in Perms(Len(as.a)) :
              /\ IF as.reverse THEN SortsStablyReversed(p, Filled(as.a, 0))
                 ELSE SortsStably(p, Filled(as.a, 0))
              /\ as' = [as EXCEPT !.state = "returned", !.out = p]
    /\ UNCHANGED sreadVars
    /\ UNCHANGED <<dv, hd>>

NoFill == [given |-> FALSE, v |-> 0]

ArgsortInit ==
    /\ SreadIdle
    /\ dv = Idle
    /\ hd = Idle
    /\ \E k \in {"ma", "nd", "list"}, fv \in {NoFill} \cup {[given |-> TRUE, v |-> v] : v \in 0..MaxVal},
          rv \in BOOLEAN :
         \E a \in SeqsOf({Num(v) : v \in 0..MaxVal}
                         \cup (IF k = "ma" THEN {MaskedElem} ELSE {}), 1, MaxSort) :
            as = [state |-> "start", kind |-> k, a |-> a, fill |-> fv, reverse |-> rv,
                  out |-> <<>>, exc |-> ""]

ArgsortNext ==
    \/ ArgsortMasked
    \/ ArgsortArray
    \/ ArgsortIterable

SpecArgsort == ArgsortInit /\ [][ArgsortNext]_vars

(***************************************************************************)
(* readhdf4 and readhdf5                                                   *)
(*                                                                         *)
(* hd.file: "unopened", "open" or "closed"; hd.ret: what is returned.      *)
(* A name that the module never defines (Error, HDF4Error, fname) raises   *)
(* NameError where it is evaluated.                                        *)
(***************************************************************************)
HdfDone == {"returned", "raised"}

HdfRaise(e) == hd' = [hd EXCEPT !.state = "raised", !.exc = e]

HdfRaiseClosed(e) == hd' = [hd EXCEPT !.state = "raised", !.exc = e, !.file = "closed"]

HdfReturn(r) == hd' = [hd EXCEPT !.state = "returned", !.ret = r, !.file = "closed"]

\* readhdf4: from pyhdf.SD import SD, "raise Error(...)" if that fails
H4Import ==
    /\ hd.state = "start"
    /\ hd.lib = "hdf4"
    /\ IF hd.pyhdf THEN hd' = [hd EXCEPT !.state = "open"]
       ELSE HdfRaise("NameError")
    /\ UNCHANGED sreadVars
    /\ UNCHANGED <<dv, as>>

\* readhdf4: f = SD(fName), with "except HDF4Error" around it
H4Open ==
    /\ hd.state = "open"
    /\ hd.lib = "hdf4"
    /\ IF hd.openable THEN hd' = [hd EXCEPT !.state = "opened", !.file = "open"]
       ELSE HdfRaise("NameError")
    /\ UNCHANGED sreadVars
    /\ UNCHANGED <<dv, as>>

\* readhdf5: f = hdf.File(fName, 'r'), with "except IOError" around it
H5Open ==
    /\ hd.state = "start"
    /\ hd.lib = "hdf5"
    /\ IF hd.openable THEN hd' = [hd EXCEPT !.state = "opened", !.file = "open"]
       ELSE HdfRaise("IOError")
    /\ UNCHANGED sreadVars
    /\ UNCHANGED <<dv, as>>

\* if fileattributes: ... return the attributes of the file
HdfFileAttributes ==
    /\ hd.state = "opened"
    /\ hd.fileattributes
    /\ HdfReturn("fileattributes")
    /\ UNCHANGED sreadVars
    /\ UNCHANGED <<dv, as>>

\* if variables: ... return the names of the datasets
HdfVariables ==
    /\ hd.state = "opened"
    /\ ~hd.fileattributes
    /\ hd.variables
    /\ HdfReturn(IF hd.sort THEN "sorted variables" ELSE "variables")
    /\ UNCHANGED sreadVars
    /\ UNCHANGED <<dv, as>>

\* if attributes: ... return the attributes of var
HdfAttributes ==
    /\ hd.state = "opened"
    /\ ~hd.fileattributes
    /\ ~hd.variables
    /\ hd.attributes
    /\ IF hd.var \notin hd.datasets
       \* f is closed, then 'not in file '+fname is evaluated
       THEN HdfRaiseClosed("NameError")
       ELSE HdfReturn("attributes")
    /\ UNCHANGED sreadVars
    /\ UNCHANGED <<dv, as>>

\* "Get variable"
HdfGetVar ==
    /\ hd.state = "opened"
    /\ ~hd.fileattributes
    /\ ~hd.variables
    /\ ~hd.attributes
    /\ IF hd.var = "" THEN HdfRaiseClosed("ValueError")
       ELSE IF hd.var \notin hd.datasets THEN HdfRaiseClosed("NameError")
       \* readhdf5: except IOError: f.close(); raise IOError(...+fname)
       ELSE IF hd.lib = "hdf5" /\ ~hd.readable THEN HdfRaiseClosed("NameError")
       \* readhdf4: the exception of the library leaves the function as it is
       ELSE IF hd.lib = "hdf4" /\ ~hd.readable THEN HdfRaise("HDF4Error")
       ELSE HdfReturn(IF hd.squeeze THEN "squeezed array" ELSE "array")
    /\ UNCHANGED sreadVars
    /\ UNCHANGED <<dv, as>>

DatasetNames == {"x", "y"}

HdfInit ==
    /\ SreadIdle
    /\ dv = Idle
    /\ as = Idle
    /\ \E lib \in {"hdf4", "hdf5"}, py \in BOOLEAN, op \in BOOLEAN, rd \in BOOLEAN,
          ds \in SUBSET DatasetNames, v \in DatasetNames \cup {""},
          sq \in BOOLEAN, vs \in BOOLEAN, at \in BOOLEAN, fa \in BOOLEAN, st \in BOOLEAN :
            hd = [state |-> "start", lib |-> lib, pyhdf |-> py, openable |-> op,
                  readable |-> rd, datasets |-> ds, var |-> v, squeeze |-> sq,
                  variables |-> vs, attributes |-> at, fileattributes |-> fa,
                  sort |-> st, file |-> "unopened", ret |-> "", exc |-> ""]

HdfNext ==
    \/ H4Import
    \/ H4Open
    \/ H5Open
    \/ HdfFileAttributes
    \/ HdfVariables
    \/ HdfAttributes
    \/ HdfGetVar

SpecHdf == HdfInit /\ [][HdfNext]_vars

(***************************************************************************)
(* Properties of sread                                                     *)
(***************************************************************************)
\* line number n of the file as sread sees it (0: the read at end of file)
LineAt(n) == IF n = 0 THEN <<>> ELSE RStrip(infile[n])

\* the line is empty or holds whitespace only
IsBlankLine(n) == \A k \in 1..Len(infile[n]) : infile[n][k] \in Whitespace

\* number of lines skipped at the beginning of the file
NSkipped ==
    LET k == IF opts.skip > opts.hskip THEN opts.skip ELSE opts.hskip
    IN  IF k < Len(infile) THEN k ELSE Len(infile)

\* number of the first blank line after the skipped ones (beyond the file
\* if there is none)
FirstBlank ==
    LET B == {n \in (NSkipped + 1)..Len(infile) : IsBlankLine(n)}
    IN  IF B = {} THEN Len(infile) + 1 ELSE MinOf(B)

\* the line has no column at the largest selected column index
LacksColumn(n) == Len(Split(LineAt(n), sep)) <= Max(Range(iinc))

Spinning == ENABLED Next /\ ~ENABLED <<Next>>_vars

\* C2: a call with both nc and cname ends by raising ValueError: it never
\* returns, it raises nothing else, and it does not loop for ever before
\* the raise.
C2_MutexRaises ==
    (NcGiven(opts) /\ opts.cname.given)
    => /\ pc \in Terminal => (pc = "raised" /\ exc = "ValueError" /\ out = PyNone)
       /\ ~Spinning

\* quote characters
Quotes == {"\"", "'"}

\* the table sread is expected to return for the written one, Unq removing
\* the quotes of a cell
Expected(Unq(_)) ==
    PyList2([r \in 1..Len(written.rows) |->
               [c \in 1..Len(written.rows[r]) |-> Unq(written.rows[r][c])]])

\* every surrounding quote character removed
Unquote(cell) == StripSet(cell, Quotes)

\* surrounding double quotes removed, then surrounding single quotes
UnquoteInOrder(cell) == StripSet(StripSet(cell, {"\""}), {"'"})

\* C5 as claimed: a written table is read back with every surrounding quote
\* character of its cells removed.
C5_RoundTripUnquoted ==
    (written.given /\ pc \in Terminal)
    => (pc = "returned" /\ out = Expected(Unquote))

\* C5 as amended: a written table is read back with the surrounding double
\* quotes and then the surrounding single quotes of its cells removed.
C5_RoundTrip ==
    (written.given /\ pc \in Terminal)
    => (pc = "returned" /\ out = Expected(UnquoteInOrder))

\* a table of two rows and two columns with a quoted cell was read back
C5_Witness ==
    /\ written.given
    /\ pc = "returned"
    /\ Len(written.rows) = 2
    /\ Len(written.rows[1]) = 2
    /\ \E r \in 1..2, c \in 1..2 : written.rows[r][c] # UnquoteInOrder(written.rows[r][c])
    /\ written.joiner = " "

\* C8: whenever sread has returned or raised, the file is closed.
C8_FileClosed == pc \in Terminal => fstate = "closed"

\* C9: the rows returned come from the lines after the skipped ones, in file
\* order: up to the first blank line with skip_blank=False, from every
\* non-blank non-comment line with skip_blank=True.
C9_BlankLines ==
    (pc = "returned" /\ ~opts.header)
    => /\ \A k \in 1..Len(src) : src[k] > NSkipped
       /\ \A k \in 1..(Len(src) - 1) : src[k] < src[k + 1]
       /\ ~opts.skip_blank => \A k \in 1..Len(src) : src[k] < FirstBlank
       /\ opts.skip_blank =>
             Range(src) = {n \in (NSkipped + 1)..Len(infile) :
                             ~IsBlankLine(n) /\ ~IsComment(infile[n])}

\* the lines the reading gets to: all with skip_blank=True, those before the
\* first blank line otherwise
Reached == IF opts.skip_blank THEN (NSkipped + 1)..Len(infile)
           ELSE (NSkipped + 1)..(FirstBlank - 1)

\* C10: with comment given, a non-blank line that the reading gets to is
\* left out of the output exactly if its first character is in comment.
C10_CommentLines ==
    (pc = "returned" /\ ~opts.header /\ opts.comment.given)
    => \A n \in Reached :
          ~IsBlankLine(n) =>
             ((n \notin Range(src)) <=> (infile[n][1] \in opts.comment.chars))

\* a comment line between two data lines: left out, the reading went on
C10_Witness ==
    /\ pc = "returned"
    /\ ~opts.header
    /\ opts.comment.given
    /\ \E n \in Reached :
          /\ ~IsBlankLine(n)
          /\ infile[n][1] \in opts.comment.chars
          /\ n - 1 \in Range(src)
          /\ n + 1 \in Range(src)

(***************************************************************************)
(* Properties of division                                                  *)
(***************************************************************************)
\* the elements the result of the call has
DivIndex == 1..Len(dv.out)

\* the result element r is the number x
IsNumber(r, x) == ~r.m /\ r.d # 0 /\ r.n = x * r.d

\* the result element r is the quotient x/y, y # 0
IsQuotient(r, x, y) == ~r.m /\ r.d # 0 /\ r.n * y = x * r.d

\* C3 as claimed: an element is otherwise where |b| <= prec and a/b
\* everywhere else.
C3_DivisionByPrec ==
    dv.state = "returned"
    => \A i \in DivIndex :
          LET x == Bc(dv.a.e, i)
              y == Bc(dv.b.e, i)
          IN  (~x.m /\ ~y.m)
              => IF Abs(y.v) <= dv.prec THEN IsNumber(dv.out[i], dv.otherwise)
                 ELSE IsQuotient(dv.out[i], x.v, y.v)

\* C3 as amended: an element is otherwise where |b| <= |prec| and a/b
\* everywhere else (elements that are not masked).
C3_DivisionByAbsPrec ==
    dv.state = "returned"
    => \A i \in DivIndex :
          LET x == Bc(dv.a.e, i)
              y == Bc(dv.b.e, i)
          IN  /\ (~y.m /\ Abs(y.v) <= Abs(dv.prec)) => IsNumber(dv.out[i], dv.otherwise)
              /\ (~x.m /\ ~y.m /\ Abs(y.v) > Abs(dv.prec)) => IsQuotient(dv.out[i], x.v, y.v)

\* a result with an element replaced by otherwise (b within prec, not zero)
\* and an element divided
C3_Witness ==
    /\ dv.state = "returned"
    /\ dv.prec # 0
    /\ \E i, j \in DivIndex :
          /\ ~Bc(dv.b.e, i).m /\ Bc(dv.b.e, i).v # 0
          /\ Abs(Bc(dv.b.e, i).v) <= Abs(dv.prec)
          /\ IsNumber(dv.out[i], dv.otherwise)
          /\ ~Bc(dv.b.e, j).m /\ ~Bc(dv.a.e, j).m
          /\ Abs(Bc(dv.b.e, j).v) > Abs(dv.prec)
          /\ ~IsNumber(dv.out[j], dv.otherwise)

(***************************************************************************)
(* Properties of argsort                                                   *)
(***************************************************************************)
\* out holds every index of a once
IsIndexOrder(p, arr) == Len(p) = Len(arr) /\ Range(p) = 0..(Len(arr) - 1)

\* the index order p sorts a with every masked entry valued as fv
SortsValuedAs(p, arr, fv) ==
    \A i, j \in 1..Len(p) :
        i < j => (IF arr[p[i] + 1].m THEN fv ELSE arr[p[i] + 1].v)
                 <= (IF arr[p[j] + 1].m THEN fv ELSE arr[p[j] + 1].v)

\* in p every masked entry comes after every unmasked entry, and the
\* unmasked entries are in ascending order
MaskedLast(p, arr) ==
    \A i, j \in 1..Len(p) :
        i < j => /\ ~(arr[p[i] + 1].m /\ ~arr[p[j] + 1].m)
                 /\ (~arr[p[i] + 1].m /\ ~arr[p[j] + 1].m)
                       => arr[p[i] + 1].v <= arr[p[j] + 1].v

\* C4 as claimed: a masked array is sorted with the masked entries valued as
\* fill_value, and with the masked entries after all others when no
\* fill_value is given.
C4_MaskedRanked ==
    (as.state = "returned" /\ as.kind = "ma")
    => /\ IsIndexOrder(as.out, as.a)
       /\ IF as.fill.given THEN SortsValuedAs(as.out, as.a, as.fill.v)
          ELSE MaskedLast(as.out, as.a)

\* C4 as amended: without fill_value the masked entries are valued as the
\* largest value of the type of the array, so that they come after every
\* smaller unmasked entry.
C4_MaskedRankedByFill ==
    (as.state = "returned" /\ as.kind = "ma")
    => /\ IsIndexOrder(as.out, as.a)
       /\ SortsValuedAs(as.out, as.a, IF as.fill.given THEN as.fill.v ELSE DefaultFill)

\* a masked entry ranked between two unmasked ones by the fill value
C4_Witness ==
    /\ as.state = "returned"
    /\ as.kind = "ma"
    /\ as.fill.given
    /\ Len(as.out) = 3
    /\ ~as.a[as.out[1] + 1].m
    /\ as.a[as.out[2] + 1].m
    /\ ~as.a[as.out[3] + 1].m
    /\ as.a[as.out[1] + 1].v < as.fill.v
    /\ as.fill.v < as.a[as.out[3] + 1].v

(***************************************************************************)
(* Properties of readhdf4 and readhdf5                                     *)
(***************************************************************************)
\* the call asks for a variable or for its attributes
AsksForVar == ~hd.fileattributes /\ ~hd.variables

\* C6: a var that is no dataset of the opened file raises ValueError, the
\* file closed.
C6_UnknownVarValueError ==
    (hd.state \in HdfDone /\ hd.file # "unopened" /\ AsksForVar
       /\ hd.var \notin hd.datasets)
    => (hd.state = "raised" /\ hd.exc = "ValueError" /\ hd.file = "closed")

\* the file cannot be opened
CannotOpen == ~hd.openable \/ (hd.lib = "hdf4" /\ ~hd.pyhdf)

\* C7: a file that cannot be opened raises IOError.
C7_CannotOpenIOError ==
    (hd.state \in HdfDone /\ CannotOpen)
    => (hd.state = "raised" /\ hd.exc = "IOError")

(***************************************************************************)
(* Properties of sread: separator                                          *)
(***************************************************************************)
\* the separator the documentation gives for a first data line: comma if
\* the line holds one, else semicolon if it holds one, else whitespace
ChosenSep(line) ==
    IF "," \in Range(line) THEN ","
    ELSE IF ";" \in Range(line) THEN ";"
    ELSE "None"

\* the rows that the lines give when split by the separator sp
RowsSplitBy(lines, sp) ==
    [k \in 1..Len(lines) |-> line2var(Split(lines[k], sp), iinc, opts.strip)]

\* the data lines read so far
DataLines == [k \in 1..Len(src) |-> LineAt(src[k])]

\* C11: without separator, the separator is comma if the first data line
\* holds a comma, else semicolon if it holds one, else whitespace; every
\* data row and every header row is split by this one separator.
C11_SeparatorOrder ==
    opts.separator = "None"
    => /\ pc \in {"indices", "header", "values", "rest", "finish", "returned"}
          => sep = ChosenSep(LineAt(src[1]))
       /\ (pc \in {"rest", "finish", "returned"} /\ ~opts.header)
          => var = RowsSplitBy(DataLines, ChosenSep(LineAt(src[1])))
       /\ (pc = "returned" /\ opts.header /\ ~opts.full_header /\ head # <<>>)
          => var = RowsSplitBy(head, ChosenSep(LineAt(src[1])))

\* the semicolon was chosen from the first data line and a later data line
\* that holds a comma was split by the semicolon
C11_Witness ==
    /\ opts.separator = "None"
    /\ ~opts.header
    /\ pc = "returned"
    /\ sep = ";"
    /\ Len(src) >= 2
    /\ "," \in Range(LineAt(src[2]))
    /\ Len(var[2]) = 2

(***************************************************************************)
(* Properties of sread: selection of columns                               *)
(***************************************************************************)
\* the columns of data line number k (in the order of reading)
ColumnsOf(k) == Split(LineAt(src[k]), sep)

\* the column indices that nc and cskip stand for
IndexSelection ==
    LET ncols == Len(ColumnsOf(1))
    IN  IF opts.nc.list THEN opts.nc.l
        ELSE IF opts.nc.n <= 0
             THEN [j \in 1..(IF ncols > opts.cskip THEN ncols - opts.cskip ELSE 0) |->
                     opts.cskip + j - 1]
        ELSE [j \in 1..opts.nc.n |-> opts.cskip + j - 1]

\* the line has every column of the selection sel
HasColumns(k, sel) == \A j \in 1..Len(sel) : sel[j] < Len(ColumnsOf(k))

\* the cells of the columns sel of data line k, in the order of sel
CellsOf(k, sel) == [j \in 1..Len(sel) |-> StripCell(ColumnsOf(k)[sel[j] + 1], opts.strip)]

FirstHeaderLine ==
    IF opts.hskip < Len(infile) THEN infile[opts.hskip + 1] ELSE <<>>

\* the indices of the columns of the header line whose cell is a name of
\* cname, both stripped with hstrip
NamedColumns(line) ==
    LET cells == Split(line, sep)
    IN  {j - 1 : j \in {i \in 1..Len(cells) :
                          IF opts.hstrip
                          THEN Strip(cells[i]) \in {Strip(n) : n \in opts.cname.names}
                          ELSE cells[i] \in opts.cname.names}}

\* sel holds the column indices S in ascending order
InColumnOrder(sel, S) ==
    /\ Range(sel) = S
    /\ \A i, j \in 1..Len(sel) : i < j => sel[i] < sel[j]

\* the call selects columns by name and has a header line to do so
ByName == opts.cname.given /\ ~NcGiven(opts) /\ opts.skip - opts.hskip > 0

\* the rows returned hold the cells of the selected columns
RowsOfSelection ==
    (pc = "returned" /\ ~opts.header)
    => /\ Len(var) = Len(src)
       /\ \A k \in 1..Len(src) : HasColumns(k, iinc) => var[k] = CellsOf(k, iinc)

\* C13 as claimed: with cname the selected columns are, in file column
\* order, those whose cell in the first header line is a name of cname
\* (stripped with hstrip=True, as they stand with hstrip=False).
C13_ColumnsByNameAsInFile ==
    ByName
    => /\ pc \in {"header", "values", "rest", "finish", "returned"}
          => InColumnOrder(iinc, NamedColumns(FirstHeaderLine))
       /\ RowsOfSelection

\* C13 as amended: the cells are those of the first header line without its
\* trailing whitespace, which is removed even with hstrip=False.
C13_ColumnsByName ==
    ByName
    => /\ pc \in {"header", "values", "rest", "finish", "returned"}
          => InColumnOrder(iinc, NamedColumns(RStrip(FirstHeaderLine)))
       /\ RowsOfSelection

\* with hstrip=False the column named ' b' was selected by the name ' b'
C13_Witness ==
    /\ ByName
    /\ ~opts.hstrip
    /\ opts.cname.names = {<<" ", "b">>}
    /\ pc = "returned"
    /\ ~opts.header
    /\ iinc = <<1>>
    /\ Len(var) >= 1
    /\ var[1] = << <<"b">> >>

(***************************************************************************)
(* Properties of sread: header                                             *)
(***************************************************************************)
\* the header lines of the file: the skip-hskip lines after the first hskip
\* lines, without trailing whitespace ('' beyond the end of the file)
HeaderLines ==
    [k \in 1..(IF opts.skip > opts.hskip THEN opts.skip - opts.hskip ELSE 0) |->
       IF opts.hskip + k <= Len(infile) THEN RStrip(infile[opts.hskip + k]) ELSE <<>>]

\* C14: with header=True and full_header=True the value returned as a list
\* is the list of the header lines, one unsplit string per line, whatever
\* nc, cname, fill, fill_value, squeeze, reform and transpose are.
C14_FullHeader ==
    (/\ pc = "returned"
     /\ opts.header
     /\ opts.full_header
     /\ ~opts.strarr
     /\ HeaderLines # <<>>)
    => out = PyList1(HeaderLines)

\* the cells of the columns sel of a line split by the separator, as the
\* data rows hold them: stripped, and fill_value for an empty cell with fill
SelectedCells(line, sel) ==
    [j \in 1..Len(sel) |->
       LET c == StripCell(Split(line, sep)[sel[j] + 1], opts.strip)
       IN  IF opts.fill /\ c = <<>> THEN opts.fill_value ELSE c]

\* every header line has every selected column
HeaderHasColumns ==
    \A k \in 1..Len(HeaderLines), j \in 1..Len(iinc) :
        iinc[j] < Len(Split(HeaderLines[k], sep))

\* a header split in columns is asked for, as a list and in the shape read
SplitHeader ==
    /\ opts.header
    /\ ~opts.full_header
    /\ ~opts.strarr
    /\ ~opts.squeeze
    /\ ~opts.reform
    /\ ~opts.transpose
    /\ HeaderLines # <<>>

\* C15: with header=True and full_header=False every returned header row
\* holds the cells of the columns selected for the data, in the same order;
\* a single header line is returned as one flat list.
C15_HeaderAsData ==
    (pc = "returned" /\ SplitHeader /\ HeaderHasColumns)
    => out = IF Len(HeaderLines) = 1
             THEN PyList1(SelectedCells(HeaderLines[1], iinc))
             ELSE PyList2([k \in 1..Len(HeaderLines) |-> SelectedCells(HeaderLines[k], iinc)])

(***************************************************************************)
(* Properties of sread: fill                                               *)
(***************************************************************************)
\* the row of data line k with fill: one cell per selected column, holding
\* fill_value for a column that the line does not have or that is empty
FilledRow(k) ==
    [j \in 1..Len(iinc) |->
       IF iinc[j] < Len(ColumnsOf(k))
       THEN LET c == StripCell(ColumnsOf(k)[iinc[j] + 1], opts.strip)
            IN  IF c = <<>> THEN opts.fill_value ELSE c
       ELSE opts.fill_value]

\* data are read with fill and returned as a list in the shape read
FillsData ==
    /\ opts.fill
    /\ ~opts.header
    /\ ~opts.strarr
    /\ ~opts.squeeze
    /\ ~opts.reform
    /\ ~opts.transpose

\* C16: with fill=True no line raises for its lack of columns, and every
\* row returned has one cell per selected column, with fill_value in the
\* cells of the columns that the line does not have and in the empty cells.
C16_FillShortLines ==
    FillsData
    => /\ (pc = "raised" /\ exc = "ValueError") => (iinc = <<>> \/ opts.cname.given)
       /\ pc = "returned"
          => out = PyList2([k \in 1..Len(src) |-> FilledRow(k)])

(***************************************************************************)
(* Properties of sread: transpose                                          *)
(***************************************************************************)
\* the value that the conversion starts from: None, the header or the rows
Collected ==
    IF ~opts.header THEN PyList2(var)
    ELSE IF opts.skip - opts.hskip <= 0 THEN PyNone
    ELSE IF opts.full_header \/ opts.skip - opts.hskip = 1 THEN PyList1(var[1])
    ELSE PyList2(var)

\* what the same call gives with transpose=False
Untransposed == PostProcess(Collected, [opts EXCEPT !.transpose = FALSE])

\* t is the column-major form of the two-dimensional b:
\* t[j][i] = b[i][j] for every cell of b, and t has no other cell
IsTransposeOf(t, b) ==
    /\ t.kind = b.kind
    /\ t.nd = 2
    /\ \A i \in 1..Len(b.d) : \A j \in 1..Len(b.d[i]) :
          j <= Len(t.d) /\ i <= Len(t.d[j]) /\ t.d[j][i] = b.d[i][j]
    /\ \A j \in 1..Len(t.d) : \A i \in 1..Len(t.d[j]) :
          i <= Len(b.d) /\ j <= Len(b.d[i])

\* C17: with transpose=True the value returned is the column-major form of
\* what the same call returns with transpose=False when that is
\* two-dimensional, and the very same value when that is one-dimensional,
\* as it is for a single header line.
C17_Transpose ==
    (pc = "returned" /\ opts.transpose)
    => /\ Untransposed.exc = ""
       /\ Untransposed.v.nd = 2 => IsTransposeOf(out, Untransposed.v)
       /\ Untransposed.v.nd = 1 => out = Untransposed.v
       /\ (opts.header /\ opts.skip - opts.hskip = 1) => out = Untransposed.v

(***************************************************************************)
(* Properties of sread: termination                                        *)
(***************************************************************************)
\* the end of the file has been reached
AtEndOfFile == fpos = Len(infile)

\* C18: sread never gets to a point where it reads on at the end of the
\* file without any change of its state, that is every call of sread comes
\* to a return or a raise after finitely many reads.
C18_Terminates ==
    (pc \notin Terminal /\ AtEndOfFile) => ~Spinning

(***************************************************************************)
(* Properties of division: error settings                                  *)
(***************************************************************************)
\* C19: on every exit of division, by return or by exception, the numpy
\* error settings are those found at the call.
C19_ErrSettingsRestored ==
    dv.state \in {"returned", "raised"} => dv.err = dv.oldsettings

====
